---- MODULE Spec2Model ----
(***************************************************************************)
(* A model of grus-gui: the in-memory Tree (src/src/node.rs), the          *)
(* viewport-bounded flattening of the tree into rows and the painter that  *)
(* follows it (src/src/ftree.rs), and the frame loop that applies the      *)
(* actions the rows report (src/src/app.rs).                               *)
(*                                                                         *)
(* Option<T> is modelled as a set with at most one element: {} is None and *)
(* {x} is Some(x).  A HashMap is a function whose DOMAIN is its key set.   *)
(***************************************************************************)
EXTENDS Integers, Sequences, FiniteSets, TLC

\* ------------------------------------------------------------------ bounds
\* Ids the store hands out in the Tree specification: 0..MaxId.
MaxId == 2
\* At most MaxSel (pid, id) pairs are selected at a time in the Tree specification.
MaxSel == 3
\* toggle is called with pid and id in 0..MaxPick.
MaxPick == 1

Ids == 0..MaxId
PickIds == 0..MaxPick
Names == {"a"}

\* ------------------------------------------------------------------ state
VARIABLES
    store,        \* the backing Store: [nodes: id -> [name, due_date, session], links: id -> Seq(id)]
    nodes,        \* Tree.nodes: HashMap<u64, Node>
    links,        \* Tree.links: HashMap<u64, Vec<u64>>
    selections,   \* Tree.selections: HashMap<u64, HashSet<u64>>, keyed by child id
    highlighted,  \* Tree.highlighted: Option<u64>
    op,           \* the Tree method called last: "new", "toggle", "rebuild", "store"
    result,       \* what it returned: "ok" or "err"
    root_pid,     \* flattree's pid (Grus.root_pid)
    root_id,      \* flattree's id (Grus.root_id)
    maxy,         \* flattree's maxy: the bottom of the available rectangle
    wp_y,         \* WidgetPlacer: next_widget_position().y
    lofnodes,     \* flattree's lofnodes: Vec<LaidOutFNode>
    queue,        \* flattree's queue: VecDeque<FChildIter>, each the children still to yield
    start,        \* flattree's start
    pc,           \* where the pass stands
    action,       \* the Action the pass returns
    color_map,    \* TreeViewPainter.color_map
    painted,      \* place_fnodes has painted the rows
    line_pos,     \* paint_div_lines' line_pos: the stack of open depths
    line_i,       \* paint_div_lines: the rows not yet visited are lofnodes[1..line_i]
    stack,        \* Grus.stack: Vec<(u64, u64)>
    todo,         \* Grus.todo: the pending Action
    app_action    \* update's local `action`, the Action perform_action is given

tree_vars == <<nodes, links, selections, highlighted>>
hist_vars == <<op, result>>
flat_vars == <<root_pid, root_id, maxy, wp_y, lofnodes, queue, start, pc, action, color_map, painted>>
line_vars == <<line_pos, line_i>>
app_vars == <<stack, todo, app_action>>
vars == <<store, nodes, links, selections, highlighted, op, result,
          root_pid, root_id, maxy, wp_y, lofnodes, queue, start, pc, action, color_map, painted,
          line_pos, line_i, stack, todo, app_action>>

\* ------------------------------------------------------------------ maps
EmptyMap == [k \in {} |-> {}]

Restrict(f, S) == [k \in S |-> f[k]]

MapPut(f, k, v) == [x \in DOMAIN f \cup {k} |-> IF x = k THEN v ELSE f[x]]

MapRemove(f, k) == [x \in DOMAIN f \ {k} |-> f[x]]

\* ------------------------------------------------------------------ Tree
\* Tree::toggle: selections is keyed by the child id and holds the parents.
\* leaves the emptied set in the map
toggle_keep_empty(sel, pid, id) ==
    IF id \in DOMAIN sel
    THEN IF pid \notin sel[id]
         THEN [sel EXCEPT ![id] = @ \cup {pid}]
         ELSE [sel EXCEPT ![id] = @ \ {pid}]
    ELSE MapPut(sel, id, {pid})

\* removes the whole entry as soon as pid is found in it
toggle_drop_entry(sel, pid, id) ==
    IF id \in DOMAIN sel
    THEN IF pid \notin sel[id]
         THEN [sel EXCEPT ![id] = @ \cup {pid}]
         ELSE MapRemove(sel, id)
    ELSE MapPut(sel, id, {pid})

\* inserts, and never removes
toggle_insert_only(sel, pid, id) ==
    IF id \in DOMAIN sel
    THEN [sel EXCEPT ![id] = @ \cup {pid}]
    ELSE MapPut(sel, id, {pid})

toggle(sel, pid, id) ==
    IF id \in DOMAIN sel
    THEN IF pid \notin sel[id]
         THEN [sel EXCEPT ![id] = @ \cup {pid}]
         ELSE LET pids == sel[id] \ {pid}
              IN  IF pids = {} THEN MapRemove(sel, id)
                               ELSE [sel EXCEPT ![id] = pids]
    ELSE MapPut(sel, id, {pid})

\* Tree::is_selected
is_selected(sel, pid, id) ==
    IF id \in DOMAIN sel THEN pid \in sel[id] ELSE FALSE

\* The order in which a HashMap or HashSet is iterated is not specified; one
\* order is fixed here, and nothing below depends on which.
RECURSIVE IterOrder(_)
IterOrder(S) ==
    IF S = {} THEN << >>
    ELSE LET x == CHOOSE y \in S : \A z \in S : y <= z
         IN  <<x>> \o IterOrder(S \ {x})

RECURSIVE FlatMap(_, _)
FlatMap(keys, sel) ==
    IF keys = << >> THEN << >>
    ELSE LET id == Head(keys)
             pids == IterOrder(sel[id])
         IN  [i \in 1..Len(pids) |-> <<pids[i], id>>] \o FlatMap(Tail(keys), sel)

\* zips each entry's parents with the id once, not repeated
SelectionsZipOnce(sel) ==
    LET keys == IterOrder(DOMAIN sel)
    IN  [i \in 1..Len(keys) |-> <<IterOrder(sel[keys[i]])[1], keys[i]>>]

\* Tree::selections: the (pid, id) pairs, entry by entry.
Selections(sel) ==
    IF DOMAIN sel # {} THEN FlatMap(IterOrder(DOMAIN sel), sel) ELSE << >>

\* Tree::selection_ids: the keys of the map.
SelectionIds(sel) ==
    IF DOMAIN sel # {} THEN IterOrder(DOMAIN sel) ELSE << >>

SelCount(sel) == Len(Selections(sel))

\* A Node built by rebuild from the store's reads for id.
NodeOf(st, id) ==
    [id |-> id, name |-> st.nodes[id].name,
     due_date |-> st.nodes[id].due_date, session |-> st.nodes[id].session]

\* ------------------------------------------------------------------ Store
\* The store is an external collaborator (grus_lib); these are the writes the
\* application asks of it.
StoreInit ==
    [nodes |-> [k \in {0} |-> [name |-> "a", due_date |-> {}, session |-> {}]],
     links |-> [k \in {0} |-> << >>]]

StoreAddChild(st, pid, new, name) ==
    [nodes |-> MapPut(st.nodes, new, [name |-> name, due_date |-> {}, session |-> {}]),
     links |-> MapPut([st.links EXCEPT ![pid] = Append(@, new)], new, << >>)]

RECURSIVE Descendants(_, _)
Descendants(st, id) ==
    LET kids == {st.links[id][i] : i \in 1..Len(st.links[id])}
    IN  {id} \cup UNION {Descendants(st, k) : k \in kids}

Without(s, x) ==
    LET F[i \in 0..Len(s)] ==
            IF i = 0 THEN << >>
            ELSE IF s[i] = x THEN F[i - 1] ELSE Append(F[i - 1], s[i])
    IN  F[Len(s)]

StoreDelete(st, pid, id) ==
    LET gone == Descendants(st, id)
        keep == DOMAIN st.nodes \ gone
    IN  [nodes |-> Restrict(st.nodes, keep),
         links |-> [k \in keep |-> IF k = pid THEN Without(st.links[k], id) ELSE st.links[k]]]

\* ------------------------------------------------------------------ actions
\* No pass is running.
FlatIdle ==
    /\ root_pid = 0
    /\ root_id = 0
    /\ maxy = 0
    /\ wp_y = 0
    /\ lofnodes = << >>
    /\ queue = << >>
    /\ start = 0
    /\ pc = "idle"
    /\ action = <<"None">>
    /\ color_map = EmptyMap
    /\ painted = FALSE
    /\ line_pos = << >>
    /\ line_i = 0

\* Grus::new: nothing is pending, the navigation stack is empty.
AppIdle ==
    /\ stack = << >>
    /\ todo = <<"None">>
    /\ app_action = <<"None">>

TreeInit ==
    /\ store = StoreInit
    /\ nodes = EmptyMap
    /\ links = EmptyMap
    /\ selections = EmptyMap
    /\ highlighted = {}
    /\ op = "new"
    /\ result = "ok"
    /\ FlatIdle
    /\ AppIdle

\* Tree::toggle(pid, id)
Toggle(pid, id) ==
    /\ SelCount(toggle(selections, pid, id)) <= MaxSel
    /\ selections' = toggle(selections, pid, id)
    /\ op' = "toggle"
    /\ result' = "ok"
    /\ UNCHANGED <<store, nodes, links, highlighted>>
    /\ UNCHANGED <<flat_vars, line_vars, app_vars>>

\* inserts what the store holds without clearing the maps first
RebuildOk_without_clear ==
    /\ nodes' = [id \in DOMAIN nodes \cup DOMAIN store.nodes |->
                    IF id \in DOMAIN store.nodes THEN NodeOf(store, id) ELSE nodes[id]]
    /\ links' = [id \in DOMAIN links \cup DOMAIN store.links |->
                    IF id \in DOMAIN store.links THEN store.links[id] ELSE links[id]]
    /\ op' = "rebuild"
    /\ result' = "ok"
    /\ UNCHANGED <<store, selections, highlighted>>
    /\ UNCHANGED <<flat_vars, line_vars, app_vars>>

\* Tree::rebuild, every read succeeding.
RebuildOk ==
    /\ nodes' = [id \in DOMAIN store.nodes |-> NodeOf(store, id)]
    /\ links' = store.links
    /\ op' = "rebuild"
    /\ result' = "ok"
    /\ UNCHANGED <<store, selections, highlighted>>
    /\ UNCHANGED <<flat_vars, line_vars, app_vars>>

\* Tree::rebuild, a read failing: `stage` is the read that failed, `at` the
\* entry it failed on, `done` the entries read before it (the store enumerates
\* its entries in key order).
RebuildErr(stage, at) ==
    /\ at \in DOMAIN store.nodes
    /\ stage \in {"reader", "all_names"} => \A k \in DOMAIN store.nodes : at <= k
    /\ LET done == IF stage \in {"reader", "all_names"} THEN {}
                   ELSE {k \in DOMAIN store.nodes : k < at}
       IN
       /\ nodes' = [id \in (IF stage = "child_ids" THEN done \cup {at} ELSE done) |-> NodeOf(store, id)]
       /\ links' = Restrict(store.links, done)
    /\ op' = "rebuild"
    /\ result' = "err"
    /\ UNCHANGED <<store, selections, highlighted>>
    /\ UNCHANGED <<flat_vars, line_vars, app_vars>>

RebuildStages == {"reader", "all_names", "entry", "due_date", "first_session", "child_ids"}

\* The tree holds what the last rebuild read.
InSync ==
    /\ nodes = [id \in DOMAIN store.nodes |-> NodeOf(store, id)]
    /\ links = store.links

\* The store changes between two rebuilds: each write the application makes is
\* followed by a rebuild (app.rs, perform_action), so a write finds the tree
\* as the last rebuild left it.
StoreWrite ==
    /\ InSync
    /\ \/ \E pid \in DOMAIN store.nodes, new \in Ids \ DOMAIN store.nodes, name \in Names :
              store' = StoreAddChild(store, pid, new, name)
       \/ \E pid \in DOMAIN store.nodes :
              \E i \in 1..Len(store.links[pid]) :
                  store' = StoreDelete(store, pid, store.links[pid][i])
    /\ op' = "store"
    /\ result' = "ok"
    /\ UNCHANGED tree_vars
    /\ UNCHANGED <<flat_vars, line_vars, app_vars>>

TreeNext ==
    \/ \E pid \in PickIds, id \in PickIds : Toggle(pid, id)
    \/ RebuildOk
    \/ \E stage \in RebuildStages, at \in Ids : RebuildErr(stage, at)
    \/ StoreWrite

Spec == TreeInit /\ [][TreeNext]_vars

\* ------------------------------------------------------------------ Tree: properties
Count(seq, x) == Cardinality({i \in 1..Len(seq) : seq[i] = x})

\* C4: a rebuild that fails leaves the node map and the ownership links
\* exactly as they were when it was called.
RebuildAtomic ==
    [][(op' = "rebuild" /\ result' = "err") => (nodes' = nodes /\ links' = links)]_vars

\* C12: a rebuild that succeeds leaves in the node map and the ownership links
\* exactly what the store holds, no entry of the tree it replaced surviving,
\* and leaves the membership map as it was, the pairs whose ids the store no
\* longer holds included.
RebuildReplaces ==
    [][(op' = "rebuild" /\ result' = "ok") =>
          /\ DOMAIN nodes' = DOMAIN store'.nodes
          /\ \A id \in DOMAIN nodes' :
                 nodes'[id] = [id |-> id, name |-> store'.nodes[id].name,
                               due_date |-> store'.nodes[id].due_date,
                               session |-> store'.nodes[id].session]
          /\ links' = store'.links
          /\ selections' = selections]_vars

\* a rebuild has succeeded, and a selected pair refers to an id that the
\* store does not hold and the rebuilt tree does not have
RebuildReplacesWitness ==
    /\ op = "rebuild"
    /\ result = "ok"
    /\ DOMAIN nodes # Ids
    /\ \E c \in DOMAIN selections : c \notin DOMAIN nodes /\ c \in selections[c]

\* C5: toggle is its own inverse: in every reachable state, toggling any pair
\* (p, c) twice gives back the membership map, keys and sets.
ToggleInverse ==
    \A p \in PickIds, c \in PickIds :
        toggle(toggle(selections, p, c), p, c) = selections

\* after a toggle: one child with two parents, one with a single parent, and
\* pairs that are absent
ToggleInverseWitness ==
    /\ op = "toggle"
    /\ \E c1 \in DOMAIN selections, c2 \in DOMAIN selections :
           /\ Cardinality(selections[c1]) = 2
           /\ Cardinality(selections[c2]) = 1
    /\ \E p \in PickIds, c \in PickIds : ~is_selected(selections, p, c)

\* C6: the membership map never holds an entry whose set is empty.
NoEmptyEntry ==
    \A c \in DOMAIN selections : selections[c] # {}

\* a toggle has just removed the last member of the last entry
NoEmptyEntryWitness ==
    /\ op = "toggle"
    /\ selections = EmptyMap

\* C10: selections() yields each selected pair exactly once and nothing else,
\* selection_ids() yields each id that has a selected pair exactly once and
\* nothing else, and both are empty when nothing is selected.
SelectionsExact ==
    LET pairs == Selections(selections)
        ids == SelectionIds(selections)
    IN  /\ \A p \in PickIds, c \in PickIds :
               Count(pairs, <<p, c>>) = IF is_selected(selections, p, c) THEN 1 ELSE 0
        /\ \A i \in 1..Len(pairs) : is_selected(selections, pairs[i][1], pairs[i][2])
        /\ \A c \in PickIds :
               Count(ids, c) = IF \E p \in PickIds : is_selected(selections, p, c) THEN 1 ELSE 0
        /\ \A i \in 1..Len(ids) : \E p \in PickIds : is_selected(selections, p, ids[i])
        /\ (\A p \in PickIds, c \in PickIds : ~is_selected(selections, p, c))
               => (pairs = << >> /\ ids = << >>)

\* one id selected under two parents: two pairs, one id
SelectionsExactWitness ==
    /\ Len(Selections(selections)) = 2
    /\ Len(SelectionIds(selections)) = 1

\* ------------------------------------------------------------------ flattree: bounds
\* A pass runs over a tree of nodes 0..n, n <= MaxNode.
MaxNode == 2
\* The viewport bottom is 0..MaxY, or AmpleY, which every tree of the model fits.
MaxY == 5
AmpleY == 60
\* At most MaxDecorated nodes carry a due date or a session.
MaxDecorated == 1
\* At most MaxFlatSel (pid, id) pairs are selected when a pass starts.
MaxFlatSel == 1

NodeIds == 0..MaxNode

\* ------------------------------------------------------------------ layout primitive
\* The height WidgetPlacer gives one laid-out row of widgets (rect.height()).
RowHeight == 1
\* ui.spacing().item_spacing.y
ItemSpacing == 1

\* Color32::WHITE
WHITE == <<255, 255, 255>>

\* DefaultHasher::new() is SipHash-1-3 with zero keys; these are bytes 0..2 of
\* finish().to_le_bytes() after write_u64(id), for id = 0..7.
HashBytes ==
    << <<69, 158, 199>>, <<217, 45, 214>>, <<22, 184, 34>>, <<250, 156, 64>>,
       <<145, 101, 237>>, <<28, 127, 25>>, <<168, 197, 208>>, <<123, 138, 254>> >>

\* Color32::from_rgb(hash[0], hash[1], hash[2])
hash_color(id) == HashBytes[id + 1]

\* ------------------------------------------------------------------ flattree: rows
\* the root keeps the rank its children start from
RootFNodeUnranked ==
    [node |-> root_id, path |-> <<0>>, pid |-> root_pid, depth |-> 0,
     selected |-> is_selected(selections, root_pid, root_id),
     priority |-> [det |-> 0, total |-> 0]]

\* the root FNode of flattree
RootFNode ==
    [node |-> root_id, path |-> <<0>>, pid |-> root_pid, depth |-> 0,
     selected |-> is_selected(selections, root_pid, root_id),
     priority |-> [det |-> 0, total |-> 1]]

\* create_fnode: the row laid out at y; the second line of widgets exists when
\* the node has a session or a due date.
create_fnode(y, fnode, hl) ==
    LET n == nodes[fnode.node]
        second == ~(n.session = {} /\ n.due_date = {})
    IN  [fnode |-> fnode, top |-> y, yellow |-> hl,
         session_label |-> second /\ n.session # {},
         due_date_label |-> second /\ n.due_date # {},
         height1 |-> RowHeight,
         height2 |-> IF second THEN RowHeight ELSE 0]

\* LaidOutFNode::height
height(lofnode, spacing) ==
    lofnode.height1 + spacing
        + (IF lofnode.session_label \/ lofnode.due_date_label
           THEN lofnode.height2 + spacing ELSE 0)

\* WidgetPlacer::next_widget_position().y once the row at y is laid out: the
\* placer moves down by the row's height, item spacing included.
next_widget_position(y, lofnode) == y + height(lofnode, ItemSpacing)

\* the viewport test of flattree: wp.next_widget_position().y > maxy
exceeds_never(y, bound) == FALSE

\* stops one unit early: a row that ends on the bound is dropped
exceeds_or_touches(y, bound) == y >= bound

exceeds(y, bound) == y > bound

\* the members selected under the node are yielded after its structural children
FChildIter_new_with_members(fnode) ==
    LET members == IterOrder({c \in DOMAIN selections : fnode.node \in selections[c]}
                                \ {links[fnode.node][i] : i \in 1..Len(links[fnode.node])})
        kids == links[fnode.node] \o members
    IN  [i \in 1..Len(kids) |->
            [node |-> kids[i], path |-> fnode.path, pid |-> fnode.node,
             depth |-> Len(fnode.path),
             selected |-> is_selected(selections, fnode.node, kids[i]),
             priority |-> [det |-> i - 1, total |-> Len(kids)]]]

\* FChildIter::new: the structural children of the row's node, in order, ranked
\* i of n; the sort by det that ends it leaves them in that order.
FChildIter_new(fnode) ==
    LET kids == links[fnode.node]
    IN  [i \in 1..Len(kids) |->
            [node |-> kids[i], path |-> fnode.path, pid |-> fnode.node,
             depth |-> Len(fnode.path),
             selected |-> is_selected(selections, fnode.node, kids[i]),
             priority |-> [det |-> i - 1, total |-> Len(kids)]]]

\* Vec<usize>::cmp is Less: lexicographic, a proper prefix first
path_less(p, q) ==
    LET n == IF Len(p) < Len(q) THEN Len(p) ELSE Len(q)
        diff == {k \in 1..n : p[k] # q[k]}
    IN  IF diff = {} THEN Len(p) < Len(q)
        ELSE LET k == CHOOSE d \in diff : \A e \in diff : d <= e
             IN  p[k] < q[k]

\* row j comes before row i once sorted: its path is less, or the paths are
\* equal and it was placed first (the sort is stable)
sorts_before(rows, j, i) ==
    \/ path_less(rows[j].fnode.path, rows[i].fnode.path)
    \/ /\ ~path_less(rows[i].fnode.path, rows[j].fnode.path)
       /\ j < i

\* leaves the rows in the order they were placed
sort_by_path_skipped(rows) == rows

\* lofnodes.sort_by(|l, r| l.fnode.path.cmp(&r.fnode.path))
sort_by_path(rows) ==
    LET n == Len(rows)
        rank(i) == Cardinality({j \in 1..n : j # i /\ sorts_before(rows, j, i)})
    IN  [k \in 1..n |-> rows[CHOOSE i \in 1..n : rank(i) = k - 1]]

\* every id keeps the default color
new_color_map_default(rows) ==
    [id \in {rows[i].fnode.node : i \in 1..Len(rows)} |-> WHITE]

\* TreeViewPainter::new: the color of every node id of the pass
new_color_map(rows) ==
    LET F[i \in 0..Len(rows)] ==
            IF i = 0 THEN EmptyMap
            ELSE LET id == rows[i].fnode.node
                     m == F[i - 1]
                 IN  IF id \in DOMAIN m
                     THEN IF m[id] = WHITE THEN [m EXCEPT ![id] = hash_color(id)] ELSE m
                     ELSE MapPut(m, id, WHITE)
    IN  F[Len(rows)]

\* place_fnodes: the action one row sets when widget w of it is clicked
row_action(lofnode, w, prev) ==
    LET f == lofnode.fnode
    IN  CASE w = "checkbox" -> <<"Toggle", f.pid, f.node>>
          [] w = "text" -> IF f.pid # f.node THEN <<"MoveInto", f.pid, f.node>> ELSE prev
          [] w = "add" -> <<"Add", f.pid, f.node>>
          [] w = "del" -> IF f.pid # f.node THEN <<"Delete", f.pid, f.node>> ELSE prev
          [] OTHER -> prev

Widgets == {"checkbox", "text", "add", "del"}

Last(seq) == seq[Len(seq)]

Front(seq) == SubSeq(seq, 1, Len(seq) - 1)

\* pops and never opens the row's own depth
line_pos_after_pop_only(opened, depth) ==
    IF opened # << >> /\ depth < Last(opened) THEN Front(opened)
    ELSE IF opened # << >> /\ depth = Last(opened) THEN opened
    ELSE Append(opened, depth)

\* the match of paint_div_lines on line_pos.last(): what line_pos is when
\* paint_div_line is called for a row of this depth
line_pos_after(opened, depth) ==
    IF opened # << >> /\ depth < Last(opened)
    THEN LET popped == Front(opened)
         IN  IF popped # << >> /\ Last(popped) = depth
             THEN popped
             ELSE Append(popped, depth)
    ELSE IF opened # << >> /\ depth = Last(opened) THEN opened
    ELSE Append(opened, depth)

\* ------------------------------------------------------------------ flattree: steps
\* flattree up to the root row (ftree.rs 34-51)
FlatRoot ==
    /\ pc = "root"
    /\ root_id \in DOMAIN nodes
    /\ LET lofnode == create_fnode(wp_y, RootFNode, root_id \in highlighted)
           y == next_widget_position(wp_y, lofnode)
       IN  /\ wp_y' = y
           /\ IF exceeds(y, maxy)
              THEN /\ pc' = "done"
                   /\ action' = <<"None">>
                   /\ UNCHANGED lofnodes
              ELSE /\ pc' = "wave"
                   /\ lofnodes' = <<lofnode>>
                   /\ UNCHANGED action
    /\ UNCHANGED <<store, tree_vars, hist_vars, line_vars, app_vars, root_pid, root_id, maxy, queue, start, color_map, painted>>

\* the head of 'outer: one FChildIter per row placed since the last wave
FlatWave ==
    /\ pc = "wave"
    /\ queue' = queue \o [i \in 1..(Len(lofnodes) - start) |-> FChildIter_new(lofnodes[start + i].fnode)]
    /\ start' = Len(lofnodes)
    /\ pc' = "pop"
    /\ UNCHANGED <<store, tree_vars, hist_vars, line_vars, app_vars, root_pid, root_id, maxy, wp_y, lofnodes, action, color_map, painted>>

\* queue.pop_front() gives an iterator that has no child left: continue
FlatExhausted ==
    /\ pc = "pop"
    /\ queue # << >>
    /\ Head(queue) = << >>
    /\ queue' = Tail(queue)
    /\ UNCHANGED <<store, tree_vars, hist_vars, line_vars, app_vars, root_pid, root_id, maxy, wp_y, lofnodes, start, pc, action, color_map, painted>>

\* the next child of the front iterator is laid out; it is kept and its
\* iterator goes to the back, or it exceeds the viewport and the pass stops
FlatChild ==
    /\ pc = "pop"
    /\ queue # << >>
    /\ Head(queue) # << >>
    /\ LET children == Head(queue)
           child == [Head(children) EXCEPT !.path = Append(@, Len(lofnodes))]
           lofnode == create_fnode(wp_y, child, child.node \in highlighted)
           y == next_widget_position(wp_y, lofnode)
       IN  /\ wp_y' = y
           /\ IF exceeds(y, maxy)
              THEN /\ pc' = "sort"
                   /\ queue' = Tail(queue)
                   /\ UNCHANGED lofnodes
              ELSE /\ pc' = pc
                   /\ queue' = Append(Tail(queue), Tail(children))
                   /\ lofnodes' = Append(lofnodes, lofnode)
    /\ UNCHANGED <<store, tree_vars, hist_vars, line_vars, app_vars, root_pid, root_id, maxy, start, action, color_map, painted>>

\* 'outer goes round whether or not the wave placed a row
FlatWaveEnd_goes_round ==
    /\ pc = "pop"
    /\ queue = << >>
    /\ pc' = "wave"
    /\ UNCHANGED <<store, tree_vars, hist_vars, line_vars, app_vars, root_pid, root_id, maxy, wp_y, lofnodes, queue, start, action, color_map, painted>>

\* the queue is empty: the pass ends if the wave placed nothing, else 'outer goes round
FlatWaveEnd ==
    /\ pc = "pop"
    /\ queue = << >>
    /\ pc' = IF start = Len(lofnodes) THEN "sort" ELSE "wave"
    /\ UNCHANGED <<store, tree_vars, hist_vars, line_vars, app_vars, root_pid, root_id, maxy, wp_y, lofnodes, queue, start, action, color_map, painted>>

\* the sort by path
FlatSort ==
    /\ pc = "sort"
    /\ lofnodes' = sort_by_path(lofnodes)
    /\ pc' = "new"
    /\ UNCHANGED <<store, tree_vars, hist_vars, line_vars, app_vars, root_pid, root_id, maxy, wp_y, queue, start, action, color_map, painted>>

\* TreeViewPainter::new
PainterNew ==
    /\ pc = "new"
    /\ color_map' = new_color_map(lofnodes)
    /\ action' = <<"None">>
    /\ pc' = "place"
    /\ UNCHANGED <<store, tree_vars, hist_vars, line_vars, app_vars, root_pid, root_id, maxy, wp_y, lofnodes, queue, start, painted>>

\* place_fnodes: the rows are painted; at most one widget reports a click
PlaceFnodes ==
    /\ pc = "place"
    /\ \/ UNCHANGED action
       \/ \E i \in 1..Len(lofnodes), w \in Widgets :
              action' = row_action(lofnodes[i], w, action)
    /\ painted' = TRUE
    /\ pc' = "lines"
    /\ UNCHANGED <<store, tree_vars, hist_vars, line_vars, app_vars, root_pid, root_id, maxy, wp_y, lofnodes, queue, start, color_map>>

\* paint_div_lines up to its loop: the stack is empty and no row is visited
PaintDivLines ==
    /\ pc = "lines"
    /\ line_pos' = << >>
    /\ line_i' = Len(lofnodes)
    /\ pc' = "line"
    /\ UNCHANGED <<store, tree_vars, hist_vars, app_vars, root_pid, root_id, maxy, wp_y, lofnodes, queue, start, action, color_map, painted>>

\* one turn of the loop of paint_div_lines: the lowest row not yet visited,
\* the first row skipped; paint_div_line is given the stack as the turn leaves it
PaintDivLine ==
    /\ pc = "line"
    /\ line_i >= 2
    /\ line_pos' = line_pos_after(line_pos, lofnodes[line_i].fnode.depth)
    /\ line_i' = line_i - 1
    /\ UNCHANGED <<store, tree_vars, hist_vars, app_vars, root_pid, root_id, maxy, wp_y, lofnodes, queue, start, pc, action, color_map, painted>>

\* the loop is over, and flattree returns tvp.action
PaintDivLinesEnd ==
    /\ pc = "line"
    /\ line_i <= 1
    /\ pc' = "done"
    /\ UNCHANGED <<store, tree_vars, hist_vars, line_vars, app_vars, root_pid, root_id, maxy, wp_y, lofnodes, queue, start, action, color_map, painted>>

FlatNext ==
    \/ FlatRoot
    \/ FlatWave
    \/ FlatExhausted
    \/ FlatChild
    \/ FlatWaveEnd
    \/ FlatSort
    \/ PainterNew
    \/ PlaceFnodes
    \/ PaintDivLines
    \/ PaintDivLine
    \/ PaintDivLinesEnd

\* ------------------------------------------------------------------ flattree: the trees of a pass
Range(seq) == {seq[i] : i \in 1..Len(seq)}

\* the sequences without repetition over the ids in S
ListsOver(S) ==
    {l \in UNION {[1..k -> S] : k \in 0..Cardinality(S)} :
        \A i \in 1..Len(l), j \in 1..Len(l) : i # j => l[i] # l[j]}

\* The links of a store of nodes 0..n: the child ids of a node are greater than
\* its own (so the links are acyclic) and every node but 0 is listed by a node.
Shapes(n) ==
    {l \in [0..n -> ListsOver(1..n)] :
        /\ \A k \in 0..n : \A c \in Range(l[k]) : c > k
        /\ \A c \in 1..n : \E k \in 0..n : c \in Range(l[k])}

\* the subsets of S of at most k elements
RECURSIVE SubsetsUpTo(_, _)
SubsetsUpTo(S, k) ==
    IF k = 0 THEN {{}}
    ELSE LET T == SubsetsUpTo(S, k - 1)
         IN  T \cup {t \cup {x} : t \in T, x \in S}

SelOf(P) == [c \in {pr[2] : pr \in P} |-> {pr[1] : pr \in {q \in P : q[2] = c}}]

\* A pass is about to start on a tree the store can hold: at most `decorated`
\* nodes with a due date or a session, at most `selected` selected pairs, and
\* the viewport bottom in `bottoms`.
FlatStart(decorated, selected, bottoms) ==
    /\ \E n \in NodeIds :
         /\ links \in Shapes(n)
         /\ \E due \in SubsetsUpTo(0..n, decorated), ses \in SubsetsUpTo(0..n, decorated) :
              /\ Cardinality(due) + Cardinality(ses) <= decorated
              /\ store = [nodes |-> [k \in 0..n |->
                                       [name |-> "a",
                                        due_date |-> IF k \in due THEN {1} ELSE {},
                                        session |-> IF k \in ses THEN {1} ELSE {}]],
                          links |-> links]
         /\ nodes = [k \in 0..n |-> NodeOf(store, k)]
         /\ \E P \in SubsetsUpTo((0..n) \X (0..n), selected) :
              selections = SelOf(P)
    /\ highlighted = {}
    /\ op = "rebuild"
    /\ result = "ok"
    /\ root_pid = 0
    /\ root_id = 0
    /\ maxy \in bottoms
    /\ wp_y = 0
    /\ lofnodes = << >>
    /\ queue = << >>
    /\ start = 0
    /\ pc = "root"
    /\ action = <<"None">>
    /\ color_map = EmptyMap
    /\ painted = FALSE
    /\ line_pos = << >>
    /\ line_i = 0
    /\ AppIdle

\* passes over every viewport, nothing selected
FlatInit == FlatStart(MaxDecorated, 0, (0..MaxY) \cup {AmpleY})

\* passes over trees with selected pairs, in an ample viewport
FlatSelInit == FlatStart(0, MaxFlatSel, {AmpleY})

SpecFlat == FlatInit /\ [][FlatNext]_vars

SpecFlatSel == FlatSelInit /\ [][FlatNext]_vars

\* passes over every viewport, rows of one height, nothing selected
FlatLiveInit == FlatStart(0, 0, (0..MaxY) \cup {AmpleY})

\* flattree runs without suspension: a pass that can take a step takes it
SpecFlatLive == FlatLiveInit /\ [][FlatNext]_vars /\ WF_vars(FlatNext)

\* ------------------------------------------------------------------ flattree: properties
\* the pass is over the sort: lofnodes is what the painter is given
Sorted == pc \in {"new", "place", "lines", "line", "done"}

\* a child was dropped, or the root was: the placer went past the bound
Overflowed == wp_y > maxy

\* a row as <<pid, id, depth>>
Proj(rows) == [i \in 1..Len(rows) |-> <<rows[i].fnode.pid, rows[i].fnode.node, rows[i].fnode.depth>>]

RowIds(rows) == [i \in 1..Len(rows) |-> rows[i].fnode.node]

\* the height of the row of node id, from the tree
NodeHeight(id) ==
    RowHeight + ItemSpacing
        + (IF nodes[id].due_date # {} \/ nodes[id].session # {}
           THEN RowHeight + ItemSpacing ELSE 0)

Concat(seqs) ==
    LET F[i \in 0..Len(seqs)] == IF i = 0 THEN << >> ELSE F[i - 1] \o seqs[i]
    IN  F[Len(seqs)]

\* the pre-order of the displayed tree below the row <<pid, id, depth>>
RECURSIVE PreOrder(_, _, _)
PreOrder(pid, id, depth) ==
    <<<<pid, id, depth>>>>
        \o Concat([i \in 1..Len(links[id]) |-> PreOrder(id, links[id][i], depth + 1)])

\* one item of every list that has one, list by list, and again
RECURSIVE RoundRobin(_)
RoundRobin(lists) ==
    LET live == SelectSeq(lists, LAMBDA l : l # << >>)
    IN  IF live = << >> THEN << >>
        ELSE [i \in 1..Len(live) |-> Head(live[i])]
                 \o RoundRobin([i \in 1..Len(live) |-> Tail(live[i])])

\* the order in which the waves discover the rows, the viewport aside
RECURSIVE Discovery(_)
Discovery(wave) ==
    IF wave = << >> THEN << >>
    ELSE wave \o Discovery(RoundRobin(
             [i \in 1..Len(wave) |->
                 [j \in 1..Len(links[wave[i][2]]) |->
                     <<wave[i][2], links[wave[i][2]][j], wave[i][3] + 1>>]]))

\* where the placer stands after the first k rows of rows
Bottom(rows, k) ==
    LET F[i \in 0..k] == IF i = 0 THEN 0 ELSE F[i - 1] + NodeHeight(rows[i][2])
    IN  F[k]

\* the rows before the first one that goes past the bound
FittingPrefix(rows, bound) ==
    LET fit == {k \in 0..Len(rows) : \A j \in 1..k : Bottom(rows, j) <= bound}
        n == CHOOSE k \in fit : \A m \in fit : m <= k
    IN  SubSeq(rows, 1, n)

SameBag(a, b) ==
    /\ Len(a) = Len(b)
    /\ \A i \in 1..Len(a) : Count(a, a[i]) = Count(b, a[i])

\* C1: every row flatten keeps was placed within the viewport: the position
\* the placer reports after the row, and so the row's top, is <= maxy; when the
\* root row itself goes past the bound, flatten keeps no row, returns None and
\* paints nothing.
KeptRowsWithinViewport ==
    /\ \A i \in 1..Len(lofnodes) :
           /\ lofnodes[i].top + height(lofnodes[i], ItemSpacing) <= maxy
           /\ lofnodes[i].top <= maxy
    /\ (pc = "done" /\ NodeHeight(root_id) > maxy)
           => (lofnodes = << >> /\ action = <<"None">> /\ ~painted)

\* a pass that kept rows, the last of them ending on the bound, and dropped a child
KeptRowsWithinViewportWitness ==
    /\ pc = "done"
    /\ Len(lofnodes) >= 2
    /\ Overflowed
    /\ \E i \in 1..Len(lofnodes) : lofnodes[i].top + height(lofnodes[i], ItemSpacing) = maxy

KeptIsFittingPrefix ==
    /\ pc = "sort" =>
           Proj(lofnodes) = FittingPrefix(Discovery(<<<<root_pid, root_id, 0>>>>), maxy)
    /\ Sorted =>
           SameBag(Proj(lofnodes), FittingPrefix(Discovery(<<<<root_pid, root_id, 0>>>>), maxy))
    /\ (Sorted /\ Len(links[root_id]) >= 2) =>
           LET c1 == links[root_id][1]
               c2 == links[root_id][2]
               two == NodeHeight(root_id) + NodeHeight(c1)
           IN  (two <= maxy /\ two + NodeHeight(c2) > maxy)
                   => RowIds(lofnodes) = <<root_id, c1>>

\* the row that was dropped is followed, in discovery order, by a row that
\* would have fitted in its place
KeptIsFittingPrefixWitness ==
    LET all == Discovery(<<<<root_pid, root_id, 0>>>>)
        n == Len(lofnodes)
    IN  /\ pc = "done"
        /\ n >= 1
        /\ n + 1 < Len(all)
        /\ \E k \in (n + 2)..Len(all) : Bottom(all, n) + NodeHeight(all[k][2]) <= maxy

\* C9 as stated: a root without children, due date or session gives exactly
\* one row, at depth 0 and of rank 0 of 1, whatever the positive viewport bound.
LoneRootAnyPositiveViewport ==
    (pc = "done" /\ links[root_id] = << >> /\ nodes[root_id].due_date = {}
        /\ nodes[root_id].session = {} /\ maxy > 0)
    => (/\ Len(lofnodes) = 1
        /\ lofnodes[1].fnode.depth = 0
        /\ lofnodes[1].fnode.priority = [det |-> 0, total |-> 1])

\* C9 as amended: it gives that one row when the root row fits the viewport
\* (the position after it is <= the bound), and no row when it does not.
LoneRootThatFits ==
    (pc = "done" /\ links[root_id] = << >> /\ nodes[root_id].due_date = {}
        /\ nodes[root_id].session = {})
    => IF RowHeight + ItemSpacing <= maxy
       THEN /\ Len(lofnodes) = 1
            /\ lofnodes[1].fnode.depth = 0
            /\ lofnodes[1].fnode.priority = [det |-> 0, total |-> 1]
       ELSE lofnodes = << >>

\* a lone root in a viewport it just fits
LoneRootThatFitsWitness ==
    /\ pc = "done"
    /\ links[root_id] = << >>
    /\ nodes[root_id].due_date = {} /\ nodes[root_id].session = {}
    /\ maxy = RowHeight + ItemSpacing
    /\ Len(lofnodes) = 1

\* the rows of node x under parent p, the root row aside
RowsOf(p, x) ==
    {i \in 1..Len(lofnodes) :
        /\ lofnodes[i].fnode.depth > 0
        /\ lofnodes[i].fnode.pid = p
        /\ lofnodes[i].fnode.node = x}

Visible(p) == \E i \in 1..Len(lofnodes) : lofnodes[i].fnode.node = p

row_color(i) == color_map[lofnodes[i].fnode.node]

Painted == pc \in {"place", "lines", "line", "done"}

FlattenTerminates ==
    /\ <>(pc = "done")
    /\ [](pc = "sort" =>
             \/ Overflowed
             \/ (queue = << >> /\ start = Len(lofnodes)))
    /\ []((pc \in {"sort", "done"} /\ ~Overflowed) =>
             SameBag(Proj(lofnodes), PreOrder(root_pid, root_id, 0)))

\* a pass has ended with every row placed, a node with two parents having a
\* row on each path, so more rows than nodes
FlattenTerminatesWitness ==
    /\ pc = "done"
    /\ ~Overflowed
    /\ Len(lofnodes) > Cardinality(DOMAIN nodes)
    /\ start = Len(lofnodes)

\* the stack as closing brackets until the top matches would leave it: pop
\* while the top is greater than the depth, then open the depth unless it is
\* the top
RECURSIVE pop_until(_, _)
pop_until(opened, depth) ==
    IF opened # << >> /\ depth < Last(opened) THEN pop_until(Front(opened), depth)
    ELSE IF opened # << >> /\ depth = Last(opened) THEN opened
    ELSE Append(opened, depth)

pass_vars == <<maxy, wp_y, lofnodes, queue, start, action, color_map, painted, line_pos, line_i>>

\* what perform_action leaves alone in every arm but MoveInto and MoveOut
perform_frame == <<root_pid, root_id, pass_vars, stack, todo, app_action>>

\* Action::Toggle(pid, id) => self.tree.toggle(pid, id); Ok(()) is unwrapped
\* and update returns.
PerformToggle ==
    /\ pc = "perform"
    /\ app_action[1] = "Toggle"
    /\ SelCount(toggle(selections, app_action[2], app_action[3])) <= MaxSel
    /\ selections' = toggle(selections, app_action[2], app_action[3])
    /\ op' = "toggle"
    /\ result' = "ok"
    /\ pc' = "frame"
    /\ UNCHANGED <<store, nodes, links, highlighted>>
    /\ UNCHANGED perform_frame

\* ------------------------------------------------------------------ toggle on any tree
\* perform_action is about to apply Toggle(p, c), p and c in 0..MaxPick, to a
\* tree of nodes 0..n, n <= MaxPick, so that p or c may be no node of it; any
\* pairs may be selected and any node highlighted.
ToggleInit ==
    /\ \E n \in PickIds :
         /\ links \in Shapes(n)
         /\ store = [nodes |-> [k \in 0..n |-> [name |-> "a", due_date |-> {}, session |-> {}]],
                     links |-> links]
         /\ nodes = [k \in 0..n |-> NodeOf(store, k)]
         /\ highlighted \in {{}} \cup {{h} : h \in 0..n}
    /\ \E P \in SubsetsUpTo(PickIds \X PickIds, MaxSel) : selections = SelOf(P)
    /\ \E p \in PickIds, c \in PickIds : app_action = <<"Toggle", p, c>>
    /\ op = "rebuild"
    /\ result = "ok"
    /\ root_pid = 0
    /\ root_id = 0
    /\ maxy = 0
    /\ wp_y = 0
    /\ lofnodes = << >>
    /\ queue = << >>
    /\ start = 0
    /\ pc = "perform"
    /\ action = app_action
    /\ color_map = EmptyMap
    /\ painted = FALSE
    /\ line_pos = << >>
    /\ line_i = 0
    /\ stack = << >>
    /\ todo = <<"None">>

SpecToggle == ToggleInit /\ [][PerformToggle]_vars

\* C11: toggle(p, c) flips exactly one membership: is_selected(p, c) becomes
\* its negation, is_selected of every other pair is unchanged, the node map,
\* the ownership links and the highlighted id are unchanged, and the call does
\* not fail, also when p or c is no node of the tree.
ToggleFlipsOne ==
    [][(pc = "perform" /\ app_action[1] = "Toggle") =>
          LET p == app_action[2]
              c == app_action[3]
              ids == PickIds \cup DOMAIN nodes \cup DOMAIN selections \cup DOMAIN selections'
          IN  /\ is_selected(selections', p, c) = ~is_selected(selections, p, c)
              /\ \A p2 \in ids, c2 \in ids :
                     <<p2, c2>> # <<p, c>>
                         => is_selected(selections', p2, c2) = is_selected(selections, p2, c2)
              /\ nodes' = nodes
              /\ links' = links
              /\ highlighted' = highlighted
              /\ result' = "ok"
              /\ pc' # "panicked"]_vars

\* a toggle has removed a pair whose child is no node of the tree, another
\* pair stays selected and a node is highlighted
ToggleFlipsOneWitness ==
    /\ pc = "frame"
    /\ op = "toggle"
    /\ app_action[3] \notin DOMAIN nodes
    /\ ~is_selected(selections, app_action[2], app_action[3])
    /\ DOMAIN selections # {}
    /\ highlighted # {}

\* ------------------------------------------------------------------ Grus: bounds
\* The store of the application holds nodes with ids in 0..MaxAppId.
MaxAppId == 1
\* MoveInto is followed while the navigation stack holds fewer than MaxStack entries.
MaxStack == 2

AppIds == 0..MaxAppId

\* ------------------------------------------------------------------ Grus: the store's writes
\* writer.set_due_date / writer.add_session for the ids the store holds
StoreDecorate(st, ids, field) ==
    [st EXCEPT !.nodes = [k \in DOMAIN st.nodes |->
        IF k \in ids
        THEN IF field = "due_date" THEN [st.nodes[k] EXCEPT !.due_date = {1}]
                                   ELSE [st.nodes[k] EXCEPT !.session = {1}]
        ELSE st.nodes[k]]]

\* writer.rename: the name becomes vboard_text
StoreRename(st, ids, name) ==
    [st EXCEPT !.nodes = [k \in DOMAIN st.nodes |->
        IF k \in ids THEN [st.nodes[k] EXCEPT !.name = name] ELSE st.nodes[k]]]

Decorated(st) ==
    Cardinality({k \in DOMAIN st.nodes : st.nodes[k].due_date # {}})
        + Cardinality({k \in DOMAIN st.nodes : st.nodes[k].session # {}})

\* The stores a writing arm of perform_action can commit: the writes of the
\* arm applied to st.
Written(st, act, sel) ==
    LET ids == Range(SelectionIds(sel))
    IN  CASE act[1] = "Add" ->
               {StoreAddChild(st, act[3], new, name) :
                    new \in AppIds \ DOMAIN st.nodes, name \in Names}
          [] act[1] = "Delete" -> {StoreDelete(st, act[2], act[3])}
          [] act[1] = "Rename" -> {StoreRename(st, ids, name) : name \in Names}
          [] act[1] = "SetDueDate" -> {StoreDecorate(st, ids, "due_date")}
          [] act[1] = "AddSession" -> {StoreDecorate(st, ids, "session")}
          [] OTHER -> {}

WritingArms == {"Add", "Delete", "Rename", "SetDueDate", "AddSession"}

\* what a rebuild that succeeds makes of the tree
RebuiltNodes(st) == [id \in DOMAIN st.nodes |-> NodeOf(st, id)]

RebuiltLinks(st) == st.links

\* ------------------------------------------------------------------ Grus::update
TopBarButtons == {"MoveOut", "Import", "Export", "Rename", "SetDueDate", "AddSession"}

\* the top bar: the button clicked sets `action` or self.todo
bar_action(b) == IF b \in {"MoveOut", "Import", "Export"} THEN <<b>> ELSE <<"None">>

bar_todo(b, t) == IF b \in {"Rename", "SetDueDate", "AddSession"} THEN <<b>> ELSE t

\* the bottom panel: Enter on the keyboard, or Set beside the date pickers,
\* makes the pending action the frame's action
vboard_fires(t, key) ==
    \/ t[1] \in {"Add", "Rename"} /\ key = "Enter"
    \/ t[1] \in {"SetDueDate", "AddSession"} /\ key = "Set"

\* update up to the central panel: the top bar, the bottom panel, and the entry
\* of flattree (its locals are fresh); b is the top-bar button clicked and key
\* the key or button of the bottom panel, "none" when there is none.  The
\* bottom panel shows its widgets once it is fully open, so not in the frame
\* in which self.todo first becomes pending.
UpdatePanels ==
    /\ pc = "frame"
    /\ \E b \in TopBarButtons \cup {"none"}, key \in {"none", "Enter", "Set"} :
         LET t == bar_todo(b, todo)
             fires == vboard_fires(t, key)
         IN  /\ key # "none" => (todo # <<"None">> /\ fires)
             /\ app_action' = IF fires THEN t ELSE bar_action(b)
             /\ todo' = IF fires THEN <<"None">> ELSE t
             /\ highlighted' = IF fires /\ key = "Enter" THEN {} ELSE highlighted
    /\ maxy' = AmpleY
    /\ wp_y' = 0
    /\ lofnodes' = << >>
    /\ queue' = << >>
    /\ start' = 0
    /\ action' = <<"None">>
    /\ color_map' = EmptyMap
    /\ painted' = FALSE
    /\ line_pos' = << >>
    /\ line_i' = 0
    /\ pc' = "root"
    /\ UNCHANGED <<store, nodes, links, selections, hist_vars, root_pid, root_id, stack>>

\* tree.node_at(id) on an id the node map does not hold: the index panics
NodeAtPanic ==
    /\ pc = "root"
    /\ root_id \notin DOMAIN nodes
    /\ pc' = "panicked"
    /\ op' = "node_at"
    /\ UNCHANGED <<store, tree_vars, result, root_pid, root_id, pass_vars, app_vars>>

\* the central panel: the match on what flattree returned
UpdateCentral ==
    /\ pc = "done"
    /\ IF action[1] = "Add"
       THEN /\ todo' = action
            /\ highlighted' = {action[3]}
            /\ UNCHANGED app_action
       ELSE /\ app_action' = IF action[1] \in {"Delete", "Toggle", "MoveInto", "MoveOut"}
                             THEN action ELSE app_action
            /\ UNCHANGED <<todo, highlighted>>
    /\ pc' = "perform"
    /\ UNCHANGED <<store, nodes, links, selections, hist_vars, root_pid, root_id, pass_vars, stack>>

\* ------------------------------------------------------------------ Grus::perform_action, the other arms
\* Add, Delete, Rename, SetDueDate, AddSession: the writes, the commit and the
\* rebuild all succeed
PerformWrite ==
    /\ pc = "perform"
    /\ app_action[1] \in WritingArms
    /\ \E st \in Written(store, app_action, selections) :
         /\ Decorated(st) <= MaxDecorated
         /\ store' = st
         /\ nodes' = RebuiltNodes(st)
         /\ links' = RebuiltLinks(st)
    /\ op' = "rebuild"
    /\ result' = "ok"
    /\ pc' = "frame"
    /\ UNCHANGED <<selections, highlighted>>
    /\ UNCHANGED perform_frame

\* Import: the rebuild (the bridge call is compiled for Android only)
PerformImport ==
    /\ pc = "perform"
    /\ app_action[1] = "Import"
    /\ nodes' = RebuiltNodes(store)
    /\ links' = RebuiltLinks(store)
    /\ op' = "rebuild"
    /\ result' = "ok"
    /\ pc' = "frame"
    /\ UNCHANGED <<store, selections, highlighted>>
    /\ UNCHANGED perform_frame

\* Export and None change nothing
PerformNothing ==
    /\ pc = "perform"
    /\ app_action[1] \in {"Export", "None"}
    /\ op' = "perform"
    /\ result' = "ok"
    /\ pc' = "frame"
    /\ UNCHANGED <<store, tree_vars>>
    /\ UNCHANGED perform_frame

PerformMoveInto ==
    /\ pc = "perform"
    /\ app_action[1] = "MoveInto"
    /\ Len(stack) < MaxStack
    /\ stack' = Append(stack, <<root_pid, root_id>>)
    /\ root_pid' = app_action[2]
    /\ root_id' = app_action[3]
    /\ nodes' = RebuiltNodes(store)
    /\ links' = RebuiltLinks(store)
    /\ op' = "rebuild"
    /\ result' = "ok"
    /\ pc' = "frame"
    /\ UNCHANGED <<store, selections, highlighted, pass_vars, todo, app_action>>

PerformMoveOut ==
    /\ pc = "perform"
    /\ app_action[1] = "MoveOut"
    /\ IF stack # << >>
       THEN /\ stack' = SubSeq(stack, 1, Len(stack) - 1)
            /\ root_pid' = stack[Len(stack)][1]
            /\ root_id' = stack[Len(stack)][2]
            /\ nodes' = RebuiltNodes(store)
            /\ links' = RebuiltLinks(store)
            /\ op' = "rebuild"
       ELSE /\ op' = "perform"
            /\ UNCHANGED <<stack, root_pid, root_id, nodes, links>>
    /\ result' = "ok"
    /\ pc' = "frame"
    /\ UNCHANGED <<store, selections, highlighted, pass_vars, todo, app_action>>

\* the arms that can return Err: a store call of a writing arm, the bridge call
\* of Import and Export (Android), the rebuild
FallibleArms == WritingArms \cup {"Import", "Export", "MoveInto", "MoveOut"}

\* An arm returns Err and update panics at perform_action(action).unwrap().
\* The writes may have been committed before the call that failed, and the
\* rebuild, if it was the one that failed, leaves the maps cleared.
PerformErr ==
    /\ pc = "perform"
    /\ app_action[1] \in FallibleArms
    /\ app_action[1] = "MoveOut" => stack # << >>
    /\ \/ UNCHANGED <<store, nodes, links>>
       \/ /\ app_action[1] # "Export"
          /\ store' \in {store} \cup {st \in Written(store, app_action, selections) :
                                        Decorated(st) <= MaxDecorated}
          /\ nodes' = EmptyMap
          /\ links' = EmptyMap
    /\ op' = "perform"
    /\ result' = "err"
    /\ pc' = "panicked"
    /\ UNCHANGED <<selections, highlighted>>
    /\ UNCHANGED perform_frame

\* ------------------------------------------------------------------ Grus: the application
\* Grus::new on a store that holds the root, before the first frame
AppInit ==
    /\ store = StoreInit
    /\ nodes = RebuiltNodes(store)
    /\ links = RebuiltLinks(store)
    /\ selections = EmptyMap
    /\ highlighted = {}
    /\ op = "rebuild"
    /\ result = "ok"
    /\ root_pid = 0
    /\ root_id = 0
    /\ maxy = 0
    /\ wp_y = 0
    /\ lofnodes = << >>
    /\ queue = << >>
    /\ start = 0
    /\ pc = "frame"
    /\ action = <<"None">>
    /\ color_map = EmptyMap
    /\ painted = FALSE
    /\ line_pos = << >>
    /\ line_i = 0
    /\ AppIdle

\* eframe calls update frame after frame
AppNext ==
    \/ UpdatePanels
    \/ NodeAtPanic
    \/ FlatNext
    \/ UpdateCentral
    \/ PerformWrite
    \/ PerformToggle
    \/ PerformImport
    \/ PerformNothing
    \/ PerformMoveInto
    \/ PerformMoveOut
    \/ PerformErr

SpecApp == AppInit /\ [][AppNext]_vars

\* ------------------------------------------------------------------ Grus: properties
\* C13: when applying an action fails with a recoverable error (a store or
\* bridge call, or the rebuild, returns Err), the application keeps running
\* with the state it had: update returns, the next frame runs, the tree and
\* the displayed root are as before.
ErrorKeepsRunning ==
    [][(pc = "perform" /\ result' = "err") =>
          /\ pc' = "frame"
          /\ nodes' = nodes
          /\ links' = links
          /\ selections' = selections
          /\ <<root_pid', root_id', stack'>> = <<root_pid, root_id, stack>>]_vars

\* C14: delete is offered for rows below the root only: the depth-0 row has no
\* delete affordance, and the pass never returns Delete(pid, id) with id the
\* displayed root, also after MoveInto has changed the displayed root.
DeleteOnlyBelowRoot ==
    /\ \A i \in 1..Len(lofnodes) :
           lofnodes[i].fnode.depth = 0
               => row_action(lofnodes[i], "del", <<"None">>)[1] # "Delete"
    /\ pc = "done" => ~(action[1] = "Delete" /\ action[3] = root_id)

\* C15: the application never applies toggle(p, c) with p = c: no such Toggle
\* reaches perform_action and no node is ever selected under itself, so a
\* checkbox click on the row with pid = id = 0 leaves the membership map as it is.
SelfToggleGuarded ==
    /\ pc = "perform" => ~(app_action[1] = "Toggle" /\ app_action[2] = app_action[3])
    /\ \A c \in DOMAIN selections : c \notin selections[c]

\* C16: at the start of every frame the displayed root id, and every id the
\* navigation stack holds for MoveOut to restore, is a key of the node map, so
\* node_at is never called with an absent id.
RootIsNode ==
    /\ pc \in {"frame", "root"} =>
           /\ root_id \in DOMAIN nodes
           /\ \A i \in 1..Len(stack) : stack[i][2] \in DOMAIN nodes
    /\ ~(pc = "panicked" /\ op = "node_at")

\* C19: at the end of a frame a node is highlighted only while an Add that
\* targets it is pending; when nothing is pending no node is highlighted.
HighlightFollowsTodo ==
    pc = "frame" =>
        /\ todo = <<"None">> => highlighted = {}
        /\ \A h \in highlighted : todo[1] = "Add" /\ todo[3] = h

====
